---- MODULE Spec2Model ----
(***************************************************************************)
(* Model of the blackjack engine in src/rust-blackjack.rs (BlackjackApp).  *)
(*                                                                         *)
(* The engine state is the struct's fields.  Every method is an operator   *)
(* from an engine state (a record of the fields) to the engine state it    *)
(* leaves, so that a method calling another (hit -> stand -> dealer_turn   *)
(* -> evaluate_game_outcomes) is one step, as in the synchronous code.     *)
(*                                                                         *)
(* Spec        the program as update() drives it: the buttons decide which *)
(*             method can be called in which game state.                   *)
(* SpecCalls   the same rounds with split() called on any active hand.     *)
(* SpecEngine  the methods called directly, in any game state.             *)
(* SpecShoe    one shuffle played until the deck is empty.                 *)
(* SpecHand    calculate_hand_value applied to hands built card by card.   *)
(***************************************************************************)
EXTENDS Integers, Sequences, FiniteSets, TLC

VARIABLES
    deck,           \* Vec<Card>, popped from its end
    player_hands,   \* Vec<Vec<Card>>
    dealer_hand,    \* Vec<Card>
    current_hand,   \* usize, 0-based as in the code
    game_state,     \* GameState, GameOver carries the message
    player_bets,    \* Vec<usize>
    total_money,    \* usize, kept as an integer so that an underflow shows
    panicked,       \* TRUE once an unwrap() on an empty deck has panicked
    rounds,         \* history: number of new_round calls so far
    round_money,    \* history: total_money when the current round started
    used,           \* history: methods called since the round started
    last,           \* history: the last method called and what it saw
    late,           \* history: calls made outside PlayerTurn this round
    arg_hand,       \* SpecHand: the hand handed to calculate_hand_value
    ret_value       \* SpecHand: what calculate_hand_value returned

engine == <<deck, player_hands, dealer_hand, current_hand, game_state,
            player_bets, total_money, panicked>>
history == <<rounds, round_money, used, last, late>>
scoring == <<arg_hand, ret_value>>
vars == <<deck, player_hands, dealer_hand, current_hand, game_state,
          player_bets, total_money, panicked,
          rounds, round_money, used, last, late, arg_hand, ret_value>>

-----------------------------------------------------------------------------
(* Bounds *)

\* new_round calls explored, the one made by new() included
MaxRounds == 2
\* cards on top of the shuffled deck that the shuffle arranges freely
TopN == 4
\* calls explored outside PlayerTurn in one round (SpecEngine)
MaxLate == 1
\* longest hand handed to calculate_hand_value in SpecHand
MaxHandLen == 3
\* cards left in the deck from which SpecShoe explores Stand and Double Down
MaxLeft == 4

-----------------------------------------------------------------------------
(* Cards *)

suits == <<"Hearts", "Diamonds", "Clubs", "Spades">>

Number(n) == [tag |-> "Number", num |-> n]
Jack == [tag |-> "Jack", num |-> 0]
Queen == [tag |-> "Queen", num |-> 0]
King == [tag |-> "King", num |-> 0]
Ace == [tag |-> "Ace", num |-> 0]

values == <<Number(2), Number(3), Number(4), Number(5), Number(6),
            Number(7), Number(8), Number(9), Number(10),
            Jack, Queen, King, Ace>>

Card(v, s) == [value |-> v, suit |-> s]

\* Card::value
CardValue(card) ==
    CASE card.value.tag = "Number" -> card.value.num
      [] card.value.tag \in {"Jack", "Queen", "King"} -> 10
      [] card.value.tag = "Ace" -> 11

\* create_deck: suits outermost, values innermost
create_deck ==
    [i \in 1..(Len(suits) * Len(values)) |->
        Card(values[((i - 1) % Len(values)) + 1],
             suits[((i - 1) \div Len(values)) + 1])]

Range(seq) == {seq[i] : i \in 1..Len(seq)}

\* Vec::pop / Vec::push
Last(seq) == seq[Len(seq)]
Pop(seq) == SubSeq(seq, 1, Len(seq) - 1)

-----------------------------------------------------------------------------
(* shuffle: thread_rng can produce any permutation of the deck.  The model *)
(* explores the permutations that put any TopN distinct cards of Pool on   *)
(* top, in any order, then the cards of Under, then every other card in    *)
(* create_deck order.  The end of the sequence is the top of the deck.     *)

Pool == {Card(Ace, "Spades"), Card(King, "Spades"), Card(Number(10), "Hearts"),
         Card(Number(8), "Hearts"), Card(Number(8), "Clubs")}

Under == <<Card(Number(2), "Diamonds"), Card(Number(9), "Clubs"),
           Card(Number(4), "Diamonds"), Card(Number(6), "Diamonds"),
           Card(Number(3), "Diamonds"), Card(Jack, "Clubs"),
           Card(Number(7), "Diamonds"), Card(Queen, "Diamonds"),
           Card(Number(5), "Diamonds")>>

RECURSIVE Without(_, _)
Without(seq, S) ==
    IF seq = <<>> THEN <<>>
    ELSE IF seq[1] \in S THEN Without(Tail(seq), S)
         ELSE <<seq[1]>> \o Without(Tail(seq), S)

Tops == {t \in [1..TopN -> Pool] : \A i, j \in 1..TopN : i # j => t[i] # t[j]}

Shuffles == {Without(create_deck, Range(t) \cup Range(Under)) \o Under \o t : t \in Tops}

-----------------------------------------------------------------------------
(* Scoring *)

RECURSIVE SumNonAces(_)
SumNonAces(hand) ==
    IF hand = <<>> THEN 0
    ELSE (IF hand[1].value.tag = "Ace" THEN 0 ELSE CardValue(hand[1]))
         + SumNonAces(Tail(hand))

CountAces(hand) == Cardinality({i \in 1..Len(hand) : hand[i].value.tag = "Ace"})

\* AddAces giving an Ace 11 only while the total stays below 21
RECURSIVE AddAcesBelow21(_, _)
AddAcesBelow21(value, aces) ==
    IF aces = 0 THEN value
    ELSE IF value + 11 >= 21 THEN AddAcesBelow21(value + 1, aces - 1)
         ELSE AddAcesBelow21(value + 11, aces - 1)

RECURSIVE AddAces(_, _)
AddAces(value, aces) ==
    IF aces = 0 THEN value
    ELSE IF value + 11 > 21 THEN AddAces(value + 1, aces - 1)
         ELSE AddAces(value + 11, aces - 1)

calculate_hand_value(hand) == AddAces(SumNonAces(hand), CountAces(hand))

\* can_split without the comparison of the two values
can_split_any_two(hand) == Len(hand) = 2

can_split(hand) ==
    IF Len(hand) # 2 THEN FALSE
    ELSE CardValue(hand[1]) = CardValue(hand[2])

-----------------------------------------------------------------------------
(* The methods, on an engine state s *)

State == [deck |-> deck, player_hands |-> player_hands,
          dealer_hand |-> dealer_hand, current_hand |-> current_hand,
          game_state |-> game_state, player_bets |-> player_bets,
          total_money |-> total_money, panicked |-> panicked]

GameOver(message) == [tag |-> "GameOver", message |-> message]
Betting == [tag |-> "Betting", message |-> <<>>]
PlayerTurn == [tag |-> "PlayerTurn", message |-> <<>>]
DealerTurn == [tag |-> "DealerTurn", message |-> <<>>]

\* one pass of the for loop of evaluate_game_outcomes, for hand index + 1
Outcome(hand_value, dealer_value) ==
    LET dealer_bust == dealer_value > 21 IN
    IF hand_value > 21 THEN "Busted"
    ELSE IF hand_value > 21 \/ (~dealer_bust /\ dealer_value > hand_value) THEN "Lost"
    ELSE IF dealer_bust \/ hand_value > dealer_value THEN "Won"
    ELSE IF hand_value = dealer_value THEN "Push"
    ELSE "None"

\* Credit paying a win the bet once
CreditOnce(outcome, bet) ==
    CASE outcome = "Won" -> bet
      [] outcome = "Push" -> bet
      [] OTHER -> 0

Credit(outcome, bet) ==
    CASE outcome = "Won" -> bet * 2
      [] outcome = "Push" -> bet
      [] OTHER -> 0

\* EvaluateFrom paying every hand with the first hand's bet
RECURSIVE EvaluateFirstBet(_, _)
EvaluateFirstBet(s, index) ==
    IF index >= Len(s.player_hands)
    THEN [s EXCEPT !.game_state = GameOver(s.game_state.message)]
    ELSE LET o == Outcome(calculate_hand_value(s.player_hands[index + 1]),
                          calculate_hand_value(s.dealer_hand))
         IN EvaluateFirstBet(
              [s EXCEPT !.game_state.message = Append(@, [hand |-> index + 1, outcome |-> o]),
                        !.total_money = @ + Credit(o, s.player_bets[1])],
              index + 1)

RECURSIVE EvaluateFrom(_, _)
EvaluateFrom(s, index) ==
    IF index >= Len(s.player_hands)
    THEN [s EXCEPT !.game_state = GameOver(s.game_state.message)]
    ELSE LET o == Outcome(calculate_hand_value(s.player_hands[index + 1]),
                          calculate_hand_value(s.dealer_hand))
         IN EvaluateFrom(
              [s EXCEPT !.game_state.message = Append(@, [hand |-> index + 1, outcome |-> o]),
                        !.total_money = @ + Credit(o, s.player_bets[index + 1])],
              index + 1)

evaluate_game_outcomes(s) ==
    EvaluateFrom([s EXCEPT !.game_state.message = <<>>], 0)

\* DealerDraws standing on 16
RECURSIVE DealerDrawsTo16(_)
DealerDrawsTo16(s) ==
    IF calculate_hand_value(s.dealer_hand) < 16 /\ Len(s.deck) > 0
    THEN DealerDrawsTo16([s EXCEPT !.dealer_hand = Append(@, Last(s.deck)),
                                   !.deck = Pop(@)])
    ELSE s

RECURSIVE DealerDraws(_)
DealerDraws(s) ==
    IF calculate_hand_value(s.dealer_hand) < 17 /\ Len(s.deck) > 0
    THEN DealerDraws([s EXCEPT !.dealer_hand = Append(@, Last(s.deck)),
                               !.deck = Pop(@)])
    ELSE s

dealer_turn(s) == evaluate_game_outcomes(DealerDraws(s))

\* stand with <= where the code has <
stand_past_end(s) ==
    IF s.current_hand + 1 <= Len(s.player_hands)
    THEN [s EXCEPT !.current_hand = @ + 1]
    ELSE dealer_turn([s EXCEPT !.game_state = DealerTurn])

\* stand leaving the dealer's turn to a later call
stand_leaves_dealer_turn(s) ==
    IF s.current_hand + 1 < Len(s.player_hands)
    THEN [s EXCEPT !.current_hand = @ + 1]
    ELSE [s EXCEPT !.game_state = DealerTurn]

stand(s) ==
    IF s.current_hand + 1 < Len(s.player_hands)
    THEN [s EXCEPT !.current_hand = @ + 1]
    ELSE dealer_turn([s EXCEPT !.game_state = DealerTurn])

\* hit without the test for a bust
hit_keeps_turn(s) ==
    IF Len(s.deck) > 0
    THEN [s EXCEPT !.player_hands[s.current_hand + 1] = Append(@, Last(s.deck)),
                   !.deck = Pop(@)]
    ELSE s

hit(s) ==
    IF Len(s.deck) > 0
    THEN LET s1 == [s EXCEPT !.player_hands[s.current_hand + 1] = Append(@, Last(s.deck)),
                             !.deck = Pop(@)]
         IN IF calculate_hand_value(s1.player_hands[s1.current_hand + 1]) > 21
            THEN stand(s1)
            ELSE s1
    ELSE s

\* double_down without the test of total_money
double_down_unchecked(s) ==
    LET s1 == [s EXCEPT !.total_money = @ - s.player_bets[s.current_hand + 1],
                        !.player_bets[s.current_hand + 1] = @ * 2]
        s2 == hit(s1)
    IN IF calculate_hand_value(s2.player_hands[s2.current_hand + 1]) <= 21
       THEN stand(s2)
       ELSE s2

double_down(s) ==
    IF s.total_money >= s.player_bets[s.current_hand + 1]
    THEN LET s1 == [s EXCEPT !.total_money = @ - s.player_bets[s.current_hand + 1],
                             !.player_bets[s.current_hand + 1] = @ * 2]
             s2 == hit(s1)
         IN IF calculate_hand_value(s2.player_hands[s2.current_hand + 1]) <= 21
            THEN stand(s2)
            ELSE s2
    ELSE s

\* split that leaves the second card in the hand it splits
split_keeps_card(s) ==
    IF ~can_split(s.player_hands[s.current_hand + 1])
       \/ s.total_money < s.player_bets[s.current_hand + 1]
    THEN s
    ELSE LET hand_to_split == s.player_hands[s.current_hand + 1]
             bet_for_new_hand == s.player_bets[s.current_hand + 1]
             s1 == [s EXCEPT !.total_money = @ - bet_for_new_hand,
                             !.player_bets = Append(@, bet_for_new_hand)]
         IN IF Len(s1.deck) < 2 THEN [s1 EXCEPT !.panicked = TRUE]
            ELSE [s1 EXCEPT !.player_hands =
                                Append([@ EXCEPT ![s.current_hand + 1] = Append(@, Last(s1.deck))],
                                       <<hand_to_split[2], s1.deck[Len(s1.deck) - 1]>>),
                            !.deck = SubSeq(@, 1, Len(@) - 2)]

\* deck.pop().unwrap() panics on an empty deck, after the money, the bet
\* list and the hand have already been changed
split(s) ==
    IF ~can_split(s.player_hands[s.current_hand + 1])
       \/ s.total_money < s.player_bets[s.current_hand + 1]
    THEN s
    ELSE LET hand_to_split == s.player_hands[s.current_hand + 1]
             bet_for_new_hand == s.player_bets[s.current_hand + 1]
             card_for_new_hand == hand_to_split[2]
             s1 == [s EXCEPT !.total_money = @ - bet_for_new_hand,
                             !.player_bets = Append(@, bet_for_new_hand),
                             !.player_hands[s.current_hand + 1] = Pop(@)]
         IN IF Len(s1.deck) = 0 THEN [s1 EXCEPT !.panicked = TRUE]
            ELSE LET s2 == [s1 EXCEPT !.player_hands[s.current_hand + 1] = Append(@, Last(s1.deck)),
                                      !.deck = Pop(@)]
                 IN IF Len(s2.deck) = 0 THEN [s2 EXCEPT !.panicked = TRUE]
                    ELSE [s2 EXCEPT !.player_hands = Append(@, <<card_for_new_hand, Last(s2.deck)>>),
                                    !.deck = Pop(@)]

\* new_round dealing into the first hand and keeping the hands after it
new_round_keeps_hands(s, shuffled) ==
    LET n == Len(shuffled) IN
    [s EXCEPT !.deck = SubSeq(shuffled, 1, n - 4),
              !.player_hands[1] = <<shuffled[n], shuffled[n - 1]>>,
              !.dealer_hand = <<shuffled[n - 2], shuffled[n - 3]>>,
              !.current_hand = 0,
              !.game_state = PlayerTurn]

\* new_round putting the bet list back to the one bet of new()
new_round_resets_bets(s, shuffled) ==
    LET n == Len(shuffled) IN
    [s EXCEPT !.deck = SubSeq(shuffled, 1, n - 4),
              !.player_hands = << <<shuffled[n], shuffled[n - 1]>> >>,
              !.dealer_hand = <<shuffled[n - 2], shuffled[n - 3]>>,
              !.current_hand = 0,
              !.game_state = PlayerTurn,
              !.player_bets = <<10>>]

\* shuffled is the deck as self.deck.shuffle left it
new_round(s, shuffled) ==
    LET n == Len(shuffled) IN
    [s EXCEPT !.deck = SubSeq(shuffled, 1, n - 4),
              !.player_hands = << <<shuffled[n], shuffled[n - 1]>> >>,
              !.dealer_hand = <<shuffled[n - 2], shuffled[n - 3]>>,
              !.current_hand = 0,
              !.game_state = PlayerTurn]

\* the struct literal of new(), before it calls new_round
new ==
    [deck |-> <<>>, player_hands |-> << <<>> >>, dealer_hand |-> <<>>,
     current_hand |-> 0, game_state |-> Betting, player_bets |-> <<10>>,
     total_money |-> 100, panicked |-> FALSE]

-----------------------------------------------------------------------------
(* Steps *)

Snapshot(op) ==
    [op |-> op, money |-> total_money, bet |-> player_bets[current_hand + 1],
     hands |-> Len(player_hands), phase |-> game_state.tag]

Is(s) ==
    /\ deck = s.deck
    /\ player_hands = s.player_hands
    /\ dealer_hand = s.dealer_hand
    /\ current_hand = s.current_hand
    /\ game_state = s.game_state
    /\ player_bets = s.player_bets
    /\ total_money = s.total_money
    /\ panicked = s.panicked

Becomes(s) ==
    /\ deck' = s.deck
    /\ player_hands' = s.player_hands
    /\ dealer_hand' = s.dealer_hand
    /\ current_hand' = s.current_hand
    /\ game_state' = s.game_state
    /\ player_bets' = s.player_bets
    /\ total_money' = s.total_money
    /\ panicked' = s.panicked

\* a method other than new_round is called
Call(op, s) ==
    /\ ~panicked
    /\ Becomes(s)
    /\ last' = Snapshot(op)
    /\ used' = used \cup {op}
    /\ late' = IF game_state.tag = "PlayerTurn" THEN late ELSE late + 1
    /\ UNCHANGED <<rounds, round_money, scoring>>

Deal(s) ==
    /\ ~panicked
    /\ rounds < MaxRounds
    /\ \E shuffled \in Shuffles : Becomes(new_round(s, shuffled))
    /\ rounds' = rounds + 1
    /\ round_money' = total_money
    /\ used' = {}
    /\ late' = 0
    /\ last' = Snapshot("new_round")
    /\ UNCHANGED scoring

Init ==
    /\ \E shuffled \in Shuffles : Is(new_round(new, shuffled))
    /\ rounds = 1
    /\ round_money = new.total_money
    /\ used = {}
    /\ late = 0
    /\ last = [op |-> "new", money |-> new.total_money, bet |-> new.player_bets[1],
               hands |-> Len(new.player_hands), phase |-> "Betting"]
    /\ arg_hand = <<>>
    /\ ret_value = 0

\* update(): the buttons of the PlayerTurn and GameOver arms
Hit == game_state.tag = "PlayerTurn" /\ Call("hit", hit(State))

Stand == game_state.tag = "PlayerTurn" /\ Call("stand", stand(State))

DoubleDown == game_state.tag = "PlayerTurn" /\ Call("double_down", double_down(State))

Split ==
    /\ game_state.tag = "PlayerTurn"
    /\ Len(player_hands[current_hand + 1]) = 2
    /\ can_split(player_hands[current_hand + 1])
    /\ Call("split", split(State))

PlayAgain == game_state.tag = "GameOver" /\ Deal(State)

Next == Hit \/ Stand \/ DoubleDown \/ Split \/ PlayAgain

Spec == Init /\ [][Next]_vars

-----------------------------------------------------------------------------
(* The methods called directly.  None of them looks at game_state and      *)
(* split() makes its own test of the hand, so the engine accepts every     *)
(* call in every state.                                                    *)
(*                                                                         *)
(* SpecCalls   rounds played as in Spec, with split() called on any active *)
(*             hand, not only where update() shows the button.             *)
(* SpecEngine  every method called in every game state.  At most MaxLate   *)
(*             calls are explored outside PlayerTurn in one round, and a   *)
(*             round that has seen one is explored to its end only.        *)

CallSplit == game_state.tag = "PlayerTurn" /\ Call("split", split(State))

NextCalls == Hit \/ Stand \/ DoubleDown \/ CallSplit \/ PlayAgain

SpecCalls == Init /\ [][NextCalls]_vars

Late == game_state.tag # "PlayerTurn" /\ late < MaxLate

LateHit == Late /\ Call("hit", hit(State))

LateStand == Late /\ Call("stand", stand(State))

LateDoubleDown == Late /\ Call("double_down", double_down(State))

LateSplit == Late /\ Call("split", split(State))

Restart == late = 0 /\ Deal(State)

NextEngine ==
    \/ Hit \/ Stand \/ DoubleDown \/ CallSplit
    \/ LateHit \/ LateStand \/ LateDoubleDown \/ LateSplit
    \/ Restart

SpecEngine == Init /\ [][NextEngine]_vars

-----------------------------------------------------------------------------
(* The deck played to its last card.  The shuffle leaves the permutation   *)
(* ShoeShuffle at every new_round: the player is dealt two Queens against  *)
(* a dealer's 17.  The player hits and splits wherever update() shows the  *)
(* buttons; Stand and Double Down are explored as the first call of a      *)
(* round and once at most MaxLeft cards are left in the deck.  Standing    *)
(* the first round wins it, and the 120 of money pay for the eleven splits *)
(* of the second round that, with the hits, take all 48 cards.             *)

\* the cards in the order in which they leave the deck
ShoeOrder ==
    <<Card(Queen, "Clubs"), Card(Queen, "Diamonds"),
      Card(Number(10), "Hearts"), Card(Number(7), "Hearts"),
      Card(Queen, "Spades"), Card(Number(4), "Diamonds"),
      Card(King, "Hearts"), Card(Number(8), "Diamonds"),
      Card(Number(10), "Diamonds"), Card(Number(7), "Diamonds"),
      Card(King, "Clubs"), Card(Number(2), "Spades"),
      Card(Queen, "Hearts"), Card(Number(4), "Hearts"),
      Card(Jack, "Clubs"), Card(Number(7), "Clubs"),
      Card(Jack, "Hearts"), Card(Number(3), "Diamonds"),
      Card(Number(10), "Spades"), Card(Number(6), "Spades"),
      Card(Jack, "Spades"), Card(Ace, "Diamonds"),
      Card(Number(10), "Clubs"), Card(Ace, "Spades"),
      Card(Number(6), "Hearts"), Card(Jack, "Diamonds"),
      Card(Number(6), "Clubs"), Card(Number(4), "Spades"),
      Card(King, "Spades"), Card(Number(9), "Diamonds"),
      Card(Number(3), "Clubs"), Card(Number(9), "Clubs"),
      Card(Number(6), "Diamonds"), Card(King, "Diamonds"),
      Card(Number(2), "Clubs"), Card(Number(3), "Spades"),
      Card(Ace, "Clubs"), Card(Number(8), "Clubs"),
      Card(Number(4), "Clubs"), Card(Number(9), "Spades"),
      Card(Number(8), "Hearts"), Card(Number(8), "Spades"),
      Card(Number(5), "Clubs"), Card(Number(5), "Hearts"),
      Card(Number(2), "Diamonds"), Card(Number(2), "Hearts"),
      Card(Number(5), "Diamonds"), Card(Number(9), "Hearts"),
      Card(Number(3), "Hearts"), Card(Number(5), "Spades"),
      Card(Ace, "Hearts"), Card(Number(7), "Spades")>>

ShoeShuffle == [i \in 1..Len(ShoeOrder) |-> ShoeOrder[Len(ShoeOrder) + 1 - i]]

InitShoe ==
    /\ Is(new_round(new, ShoeShuffle))
    /\ rounds = 1
    /\ round_money = new.total_money
    /\ used = {}
    /\ late = 0
    /\ last = [op |-> "new", money |-> new.total_money, bet |-> new.player_bets[1],
               hands |-> Len(new.player_hands), phase |-> "Betting"]
    /\ arg_hand = <<>>
    /\ ret_value = 0

FirstOrLast == Len(deck) = Len(create_deck) - 4 \/ Len(deck) <= MaxLeft

ShoeStand == FirstOrLast /\ Stand

ShoeDoubleDown == FirstOrLast /\ DoubleDown

ShoePlayAgain ==
    /\ game_state.tag = "GameOver"
    /\ ~panicked
    /\ rounds < MaxRounds
    /\ Becomes(new_round(State, ShoeShuffle))
    /\ rounds' = rounds + 1
    /\ round_money' = total_money
    /\ used' = {}
    /\ late' = 0
    /\ last' = Snapshot("new_round")
    /\ UNCHANGED scoring

NextShoe == Hit \/ ShoeStand \/ ShoeDoubleDown \/ Split \/ ShoePlayAgain

SpecShoe == InitShoe /\ [][NextShoe]_vars

-----------------------------------------------------------------------------
(* calculate_hand_value on hands built one card at a time from any values  *)

HandCards == {Card(values[i], suits[1]) : i \in 1..Len(values)}

InitHand ==
    /\ Is(new)
    /\ rounds = 0
    /\ round_money = new.total_money
    /\ used = {}
    /\ late = 0
    /\ last = [op |-> "new", money |-> new.total_money, bet |-> new.player_bets[1],
               hands |-> Len(new.player_hands), phase |-> "Betting"]
    /\ arg_hand = <<>>
    /\ ret_value = calculate_hand_value(<<>>)

Score ==
    /\ Len(arg_hand) < MaxHandLen
    /\ \E card \in HandCards : arg_hand' = Append(arg_hand, card)
    /\ ret_value' = calculate_hand_value(arg_hand')
    /\ UNCHANGED <<engine, history>>

NextHand == Score

SpecHand == InitHand /\ [][NextHand]_vars

-----------------------------------------------------------------------------
(* Vocabulary of the claims *)

Max(S) == CHOOSE x \in S : \A y \in S : y <= x

RECURSIVE SumSeq(_)
SumSeq(seq) == IF seq = <<>> THEN 0 ELSE seq[1] + SumSeq(Tail(seq))

RECURSIVE Flatten(_)
Flatten(seqs) == IF seqs = <<>> THEN <<>> ELSE seqs[1] \o Flatten(Tail(seqs))

IsPrefix(a, b) == Len(a) <= Len(b) /\ a = SubSeq(b, 1, Len(a))

IsAce(card) == card.value.tag = "Ace"

\* the points of a rank as section 3 of the specification gives them
BasePoints(card) ==
    IF card.value.tag = "Number" THEN card.value.num
    ELSE IF IsAce(card) THEN 11 ELSE 10

\* the hand with every Ace counted as 1
RECURSIVE HardTotal(_)
HardTotal(hand) ==
    IF hand = <<>> THEN 0
    ELSE (IF IsAce(hand[1]) THEN 1 ELSE BasePoints(hand[1])) + HardTotal(Tail(hand))

\* every total of the hand with each Ace counted as 1 or as 11
Totals(hand) ==
    {HardTotal(hand) + 10 * k : k \in 0..Cardinality({i \in 1..Len(hand) : IsAce(hand[i])})}

ActiveHand == player_hands[current_hand + 1]
ActiveBet == player_bets[current_hand + 1]
Played == {"hit", "stand", "double_down", "split"}
Message == game_state.message
PlayerScore(i) == calculate_hand_value(player_hands[i])
DealerScore == calculate_hand_value(dealer_hand)

-----------------------------------------------------------------------------
(* C1: for every hand, calculate_hand_value returns the largest total not  *)
(* above 21 among the totals that count each Ace as 1 or 11 when there is  *)
(* one, and a value above 21 only when there is none.                      *)
C1_MaximalTotal ==
    LET fits == {t \in Totals(arg_hand) : t <= 21} IN
    IF fits # {} THEN ret_value = Max(fits) ELSE ret_value > 21

(* C2: in every reachable state the number of player hands equals the      *)
(* number of bets.                                                         *)
C2_HandsEqualBets == Len(player_hands) = Len(player_bets)

(* C3: a round played on one hand without split or double_down that ends   *)
(* in Push leaves total_money where it was before the round's wager, and   *)
(* one that ends Lost or Busted leaves it lower by exactly the bet.        *)
C3_PushNoNetChange ==
    (/\ game_state.tag = "GameOver"
     /\ Len(player_hands) = 1
     /\ used \cap {"split", "double_down"} = {})
    => /\ Message[1].outcome = "Push" => total_money = round_money
       /\ Message[1].outcome \in {"Lost", "Busted"}
            => total_money = round_money - player_bets[1]

(* C4: from the engine as constructed (100 of money, one bet of 10), a     *)
(* first round without split or double_down in which the player's score is *)
(* at most 21 and the dealer busts or scores less is over with the outcome *)
(* Won and total_money = 120.                                              *)
C4_FirstRoundWon ==
    /\ game_state.tag = "GameOver"
    /\ rounds = 1
    /\ used \cap {"split", "double_down"} = {}
    /\ PlayerScore(1) <= 21
    /\ (DealerScore > 21 \/ PlayerScore(1) > DealerScore)

\* C4: such a round is over with the outcome Won and total_money = 120
C4_FirstRoundWin ==
    C4_FirstRoundWon =>
        /\ Message = <<[hand |-> 1, outcome |-> "Won"]>>
        /\ total_money = 120

C4_Witness == C4_FirstRoundWon /\ total_money = 120

(* C5: the step that ends a round classifies every hand, in hand order, as *)
(* Busted (score > 21), Won (not busted, and the dealer busted or scores   *)
(* less), Push (neither busted, equal scores) or Lost (otherwise), and     *)
(* credits total_money with the sum of 2 x bet for each Won hand and       *)
(* 1 x bet for each Push hand, each hand with its own bet.  A double_down  *)
(* that ends the round first takes its wager, which is the growth of the   *)
(* bets in that step.                                                      *)
Classify(hand_score, dealer_score) ==
    CASE hand_score > 21 -> "Busted"
      [] hand_score <= 21 /\ (dealer_score > 21 \/ hand_score > dealer_score) -> "Won"
      [] hand_score <= 21 /\ dealer_score <= 21 /\ hand_score = dealer_score -> "Push"
      [] OTHER -> "Lost"

Payout(hands, dealer, bets) ==
    SumSeq([i \in 1..Len(hands) |->
        LET c == Classify(calculate_hand_value(hands[i]), calculate_hand_value(dealer)) IN
        IF c = "Won" THEN 2 * bets[i] ELSE IF c = "Push" THEN bets[i] ELSE 0])

C5_Settles ==
    (game_state.tag = "PlayerTurn" /\ game_state'.tag = "GameOver") =>
        /\ game_state'.message =
              [i \in 1..Len(player_hands') |->
                  [hand |-> i,
                   outcome |-> Classify(calculate_hand_value(player_hands'[i]),
                                        calculate_hand_value(dealer_hand'))]]
        /\ total_money' = total_money - (SumSeq(player_bets') - SumSeq(player_bets))
                           + Payout(player_hands', dealer_hand', player_bets')

\* C5: every step that ends a round settles as C5_Settles says
C5_Settlement == [][C5_Settles]_vars

C5_Witness ==
    /\ game_state.tag = "GameOver"
    /\ \E i, j \in 1..Len(player_hands) :
         /\ i > 1
         /\ Message[i].outcome \in {"Won", "Push"}
         /\ player_bets[i] # player_bets[1]
         /\ Message[j].outcome \in {"Busted", "Lost"}

(* C6: hit, stand, double_down or split called while the game is over      *)
(* changes nothing of the engine: hands, dealer hand, deck, bets, money,   *)
(* current hand and game state with its message.                           *)
C6_LateCallIsNoOp ==
    [][(game_state.tag = "GameOver" /\ last'.op \in Played) => UNCHANGED engine]_vars

(* C7: total_money is never negative, and double_down called with less     *)
(* money than the active hand's bet changes nothing of the engine.         *)
C7_DoubleDownRefused ==
    (last'.op = "double_down" /\ total_money < ActiveBet) => UNCHANGED engine

\* C7: total_money >= 0 always, and a double_down short of money is refused
C7_Bankroll ==
    /\ total_money >= 0
    /\ [][total_money' >= 0 /\ C7_DoubleDownRefused]_vars

C7_Witness ==
    /\ last.op = "double_down"
    /\ last.phase = "PlayerTurn"
    /\ last.money < last.bet
    /\ total_money = last.money

(* C8: while the process runs, the player hands, the dealer hand and the   *)
(* deck hold every card of create_deck exactly once, and a call other than *)
(* new_round only takes cards off the end of the deck and puts them at the *)
(* end of hands, split moving one card from the split hand to the new one. *)
CardsInPlay == deck \o dealer_hand \o Flatten(player_hands)

DeckCards == Range(create_deck)

C8_EveryCardOnce ==
    ~panicked =>
        /\ Len(CardsInPlay) = Cardinality(DeckCards)
        /\ Range(CardsInPlay) = DeckCards
        /\ Cardinality(DeckCards) = 52

C8_Moves ==
    (last'.op \in Played /\ ~panicked') =>
        /\ IsPrefix(deck', deck)
        /\ IsPrefix(dealer_hand, dealer_hand')
        /\ Len(player_hands') >= Len(player_hands)
        /\ \A i \in 1..Len(player_hands) :
             \/ IsPrefix(player_hands[i], player_hands'[i])
             \/ /\ last'.op = "split"
                /\ i = current_hand + 1
                /\ Len(player_hands') = Len(player_hands) + 1
                /\ player_hands'[i][1] = player_hands[i][1]
                /\ player_hands'[Len(player_hands')][1] = player_hands[i][2]

\* C8: every card exactly once in every state, moved only as C8_Moves says
C8_NoCardTwice == []C8_EveryCardOnce /\ [][C8_Moves]_vars

C8_Witness ==
    /\ game_state.tag = "GameOver"
    /\ {"hit", "split"} \subseteq used
    /\ Len(player_hands) > 1
    /\ Len(dealer_hand) > 2

(* C9: whenever the game state is PlayerTurn, current_hand is an index of  *)
(* player_hands.                                                           *)
C9_ActiveHandValid ==
    game_state.tag = "PlayerTurn" =>
        (0 <= current_hand /\ current_hand < Len(player_hands))

C9_Witness ==
    /\ game_state.tag = "PlayerTurn"
    /\ last.op = "stand"
    /\ current_hand > 0
    /\ current_hand = Len(player_hands) - 1

(* C10: split called on an active hand that does not hold exactly 2 cards, *)
(* or whose two cards differ in base points (an Ace equal to an Ace only,  *)
(* 10, Jack, Queen and King equal to each other), or with less money than  *)
(* the active hand's bet, changes nothing of the engine.                   *)
C10_MustRefuse ==
    \/ Len(ActiveHand) # 2
    \/ BasePoints(ActiveHand[1]) # BasePoints(ActiveHand[2])
    \/ total_money < ActiveBet

\* C10: a split that must be refused changes nothing of the engine
C10_SplitRefused ==
    [][(last'.op = "split" /\ C10_MustRefuse) => UNCHANGED engine]_vars

C10_Refused == last.op = "split" /\ last.hands = Len(player_hands)

C10_Witness ==
    /\ C10_Refused
    /\ Len(ActiveHand) = 2
    /\ IsAce(ActiveHand[1]) # IsAce(ActiveHand[2])
    /\ total_money >= ActiveBet

C10_WitnessSize == C10_Refused /\ Len(ActiveHand) > 2

C10_WitnessFunds ==
    /\ C10_Refused
    /\ Len(ActiveHand) = 2
    /\ BasePoints(ActiveHand[1]) = BasePoints(ActiveHand[2])
    /\ total_money < ActiveBet

(* C11: after new_round, whatever the state it was called in (a round with *)
(* several split hands included), there is exactly one player hand, of 2   *)
(* cards, the dealer hand has 2 cards, the deck holds the other 48 cards   *)
(* of a 52-card deck without duplicates, current_hand is 0 and the game    *)
(* state is PlayerTurn.                                                    *)
C11_FreshRound ==
    last.op \in {"new", "new_round"} =>
        /\ Len(player_hands) = 1
        /\ Len(player_hands[1]) = 2
        /\ Len(dealer_hand) = 2
        /\ Len(deck) = 48
        /\ Cardinality(DeckCards) = 52
        /\ Cardinality(Range(deck)) = 48
        /\ Range(deck) = DeckCards \ (Range(player_hands[1]) \cup Range(dealer_hand))
        /\ Cardinality(Range(player_hands[1]) \cup Range(dealer_hand)) = 4
        /\ current_hand = 0
        /\ game_state.tag = "PlayerTurn"

C11_Witness ==
    /\ last.op = "new_round"
    /\ last.hands > 1
    /\ last.phase = "GameOver"
    /\ Len(player_hands) = 1

(* C12: a double_down that is accepted (money >= the active hand's bet) on *)
(* a hand that is not the last one returns in PlayerTurn with current_hand *)
(* exactly one higher, whether or not the drawn card busts the hand.       *)
C12_NextHandNotSkipped ==
    [][(/\ last'.op = "double_down"
        /\ game_state.tag = "PlayerTurn"
        /\ total_money >= ActiveBet
        /\ current_hand + 1 < Len(player_hands))
       => (game_state'.tag = "PlayerTurn" /\ current_hand' = current_hand + 1)]_vars

(* C13: a double_down that is accepted (money >= the active hand's bet b)  *)
(* takes exactly b from total_money, settlement credits of the same call   *)
(* apart, makes that hand's bet 2b, leaves the other bets as they were and *)
(* adds exactly one card, the top card of the deck, to that hand.          *)
C13_DoubleDownEffect ==
    [][(last'.op = "double_down" /\ total_money >= ActiveBet) =>
        /\ total_money' = total_money - ActiveBet
                          + (IF game_state'.tag = "GameOver"
                             THEN Payout(player_hands', dealer_hand', player_bets')
                             ELSE 0)
        /\ player_bets' = [player_bets EXCEPT ![current_hand + 1] = 2 * ActiveBet]
        /\ Len(deck) > 0
        /\ player_hands' = [player_hands EXCEPT ![current_hand + 1] = Append(@, Last(deck))]]_vars

(* C14: a split that is accepted (the active hand has 2 cards of equal     *)
(* base points and money >= its bet b) takes exactly b from total_money,   *)
(* appends one bet b, leaves the active hand with its first card and the   *)
(* top card of the deck, appends after all hands a hand of its second card *)
(* and the next card of the deck, takes exactly 2 cards off the deck and   *)
(* leaves current_hand, the game state, the dealer hand and the other      *)
(* hands as they were.                                                     *)
C14_Accepted ==
    /\ Len(ActiveHand) = 2
    /\ BasePoints(ActiveHand[1]) = BasePoints(ActiveHand[2])
    /\ total_money >= ActiveBet

C14_SplitEffect ==
    [][(last'.op = "split" /\ C14_Accepted) =>
        /\ ~panicked'
        /\ total_money' = total_money - ActiveBet
        /\ player_bets' = Append(player_bets, ActiveBet)
        /\ Len(deck) >= 2
        /\ deck' = SubSeq(deck, 1, Len(deck) - 2)
        /\ player_hands' =
              Append([player_hands EXCEPT ![current_hand + 1] = <<@[1], Last(deck)>>],
                     <<ActiveHand[2], deck[Len(deck) - 1]>>)
        /\ UNCHANGED <<current_hand, game_state, dealer_hand>>]_vars

(* C15: whenever the game state is PlayerTurn the active hand scores at    *)
(* most 21, and a hit whose card takes the active hand above 21 moves to   *)
(* the next hand or, on the last hand, runs the dealer and ends the round  *)
(* within the same call.                                                   *)
C15_ActiveNotBusted ==
    game_state.tag = "PlayerTurn" => calculate_hand_value(ActiveHand) <= 21

C15_BustAdvances ==
    (/\ last'.op = "hit"
     /\ Len(deck) > 0
     /\ calculate_hand_value(Append(ActiveHand, Last(deck))) > 21)
    => IF current_hand + 1 < Len(player_hands)
       THEN current_hand' = current_hand + 1 /\ game_state'.tag = "PlayerTurn"
       ELSE game_state'.tag = "GameOver"

\* C15: no busted hand is ever the active hand, a bust ends the turn at once
C15_BustEndsTurn == []C15_ActiveNotBusted /\ [][C15_BustAdvances]_vars

C15_Witness ==
    /\ last.op = "hit"
    /\ game_state.tag = "PlayerTurn"
    /\ current_hand > 0
    /\ PlayerScore(current_hand) > 21

C15_WitnessLastHand ==
    /\ last.op = "hit"
    /\ game_state.tag = "GameOver"
    /\ PlayerScore(Len(player_hands)) > 21

(* C16: stand in PlayerTurn on a hand that is not the last one moves       *)
(* current_hand to the next hand and changes nothing else (no card drawn,  *)
(* hands, bets, money and game state as they were); on the last hand the   *)
(* dealer draws and the hands are settled inside the call, which returns   *)
(* in GameOver.  DealerTurn is never the game state after a call.          *)
C16_StandStep ==
    (last'.op = "stand" /\ game_state.tag = "PlayerTurn") =>
        IF current_hand + 1 < Len(player_hands)
        THEN /\ current_hand' = current_hand + 1
             /\ UNCHANGED <<game_state, deck, player_hands, dealer_hand,
                            player_bets, total_money>>
        ELSE /\ game_state'.tag = "GameOver"
             /\ IsPrefix(dealer_hand, dealer_hand')
             /\ IsPrefix(deck', deck)
             /\ Len(deck) - Len(deck') = Len(dealer_hand') - Len(dealer_hand)
             /\ \A k \in 1..(Len(deck) - Len(deck')) :
                    dealer_hand'[Len(dealer_hand) + k] = deck[Len(deck) + 1 - k]
             /\ calculate_hand_value(dealer_hand') >= 17 \/ deck' = <<>>
             /\ Len(game_state'.message) = Len(player_hands)
             /\ total_money' = total_money
                               + Payout(player_hands, dealer_hand', player_bets)
             /\ UNCHANGED <<player_hands, player_bets, current_hand>>

\* C16: every stand is such a step and no state is in DealerTurn
C16_Stand == [](game_state.tag # "DealerTurn") /\ [][C16_StandStep]_vars

C16_Witness ==
    /\ last.op = "stand"
    /\ last.phase = "PlayerTurn"
    /\ game_state.tag = "GameOver"
    /\ Len(dealer_hand) > 2
    /\ Len(player_hands) > 1

C16_WitnessNextHand ==
    /\ last.op = "stand"
    /\ game_state.tag = "PlayerTurn"
    /\ current_hand > 0

(* C17: in every GameOver state the dealer scores at least 17 or the deck  *)
(* is empty, and if the dealer drew, its hand without the last card scores *)
(* below 17; in every PlayerTurn state the dealer hand is its 2 cards.     *)
C17_DealerPolicy ==
    /\ game_state.tag = "GameOver" =>
          /\ DealerScore >= 17 \/ deck = <<>>
          /\ Len(dealer_hand) >= 2
          /\ Len(dealer_hand) > 2 => calculate_hand_value(Pop(dealer_hand)) < 17
    /\ game_state.tag = "PlayerTurn" => Len(dealer_hand) = 2

C17_Witness ==
    /\ game_state.tag = "GameOver"
    /\ Len(dealer_hand) > 2
    /\ DealerScore >= 17
    /\ DealerScore <= 21
    /\ Len(deck) > 0

C17_WitnessNoDraw ==
    /\ game_state.tag = "GameOver"
    /\ Len(dealer_hand) = 2

(* C18: with an empty deck, hit, called directly or by double_down,        *)
(* changes nothing: hands, dealer hand, bets, money, current hand and game *)
(* state are after the call what they were before it.                      *)
C18_EmptyDeckNoEffect ==
    [][(last'.op \in {"hit", "double_down"} /\ deck = <<>>) =>
        UNCHANGED <<player_hands, dealer_hand, player_bets, total_money,
                    current_hand, game_state>>]_vars

(* C19: calculate_hand_value is the greedy procedure of the specification: *)
(* the base points of the cards other than Aces, then for each Ace in turn *)
(* 11 if the running total stays at most 21 and 1 otherwise.  Two Aces     *)
(* score 12, an Ace with a ten-valued card scores 21, and the value is a   *)
(* function of the hand alone.                                             *)
RECURSIVE C19_OtherCards(_)
C19_OtherCards(hand) ==
    IF hand = <<>> THEN 0
    ELSE (IF IsAce(hand[1]) THEN 0 ELSE BasePoints(hand[1])) + C19_OtherCards(Tail(hand))

RECURSIVE C19_EachAce(_, _)
C19_EachAce(total, hand) ==
    IF hand = <<>> THEN total
    ELSE IF ~IsAce(hand[1]) THEN C19_EachAce(total, Tail(hand))
    ELSE IF total + 11 <= 21 THEN C19_EachAce(total + 11, Tail(hand))
    ELSE C19_EachAce(total + 1, Tail(hand))

C19_Greedy ==
    /\ ret_value = C19_EachAce(C19_OtherCards(arg_hand), arg_hand)
    /\ (Len(arg_hand) = 2 /\ IsAce(arg_hand[1]) /\ IsAce(arg_hand[2])) => ret_value = 12
    /\ (/\ Len(arg_hand) = 2
        /\ \E i, j \in 1..2 : IsAce(arg_hand[i]) /\ BasePoints(arg_hand[j]) = 10)
       => ret_value = 21

C19_Witness ==
    /\ Len(arg_hand) = 2
    /\ IsAce(arg_hand[1])
    /\ BasePoints(arg_hand[2]) = 10
    /\ ret_value = 21

C19_WitnessAces ==
    /\ Len(arg_hand) = 3
    /\ \A i \in 1..3 : IsAce(arg_hand[i])
    /\ ret_value = 13

(* C20: new_round leaves total_money and the whole of player_bets as they  *)
(* were, so that a bet doubled by double_down and a bet added by split     *)
(* carry into the later rounds, and the first bet never decreases.         *)
C20_BetsCarry ==
    [][/\ last'.op = "new_round" => UNCHANGED <<total_money, player_bets>>
       /\ player_bets'[1] >= player_bets[1]]_vars

C20_Witness ==
    /\ last.op = "new_round"
    /\ player_bets[1] > new.player_bets[1]
    /\ Len(player_bets) > 1
    /\ total_money # new.total_money

====
